---- MODULE Spec2Model ----
(***************************************************************************)
(* Three-body simulator (src/main.py): the RK4 physics core, the bounded   *)
(* per-body trajectory deques and the main loop that drives them.          *)
(*                                                                         *)
(* Numbers.  The program computes in IEEE-754 binary64 through numpy.  The *)
(* model keeps the format's behaviour and shrinks its size: a number is an *)
(* integer multiple of one quantum with at most MantBits significant bits, *)
(* every arithmetic operation rounds its exact result to the nearest such  *)
(* number (ties to the even significand), results beyond MaxFinite         *)
(* overflow to an infinity, and invalid operations give NaN.  Quantities   *)
(* are in model units chosen so that the literals of initialize_simulation *)
(* become small integers.                                                  *)
(*                                                                         *)
(* Arrays.  A numpy array is an object on `heap`; a variable holds its     *)
(* index, and a slice/reshape/row is a view (base index, row) into it, so  *)
(* that in-place writes and aliasing are expressible.                      *)
(***************************************************************************)
EXTENDS Integers, Sequences, FiniteSets, TLC

\* ------------------------------------------------------------ bounds
MantBits == 4         \* significant bits of the number format
MaxExp == 20          \* largest exponent: MaxFinite = (2^MantBits - 1) * 2^MaxExp
MaxTicks == 12        \* iterations of the main loop that the model follows

\* ----------------------------------------------------- number format
MaxFinite == (2^MantBits - 1) * 2^MaxExp
PInf == MaxFinite + 1
NInf == -PInf
NaN == MaxFinite + 2

Abs(x) == IF x < 0 THEN -x ELSE x
Sgn(x) == IF x < 0 THEN -1 ELSE IF x > 0 THEN 1 ELSE 0
IsNaN(x) == x = NaN
IsInf(x) == x = PInf \/ x = NInf
IsFinite(x) == ~IsNaN(x) /\ ~IsInf(x)
Signed(s, x) == IF s < 0 THEN -x ELSE x

\* a / b (a >= 0, b > 0) rounded to the nearest integer, ties to even
RoundHalfEven(a, b) ==
  LET q == a \div b
      r == a % b
  IN IF 2 * r > b \/ (2 * r = b /\ q % 2 = 1) THEN q + 1 ELSE q

RECURSIVE Exponent(_, _, _)
\* the least e >= from with a / (b * 2^e) < 2^MantBits
Exponent(a, b, from) ==
  IF a \div (b * 2^from) < 2^MantBits THEN from ELSE Exponent(a, b, from + 1)

\* the exact rational num / den (den # 0) rounded into the format
Rnd(num, den) ==
  LET s == Sgn(num) * Sgn(den)
      a == Abs(num)
      b == Abs(den)
      e == Exponent(a, b, 0)
      v == RoundHalfEven(a, b * 2^e) * 2^e
  IN IF v > MaxFinite THEN Signed(s, PInf) ELSE Signed(s, v)

FNeg(a) == IF IsNaN(a) THEN NaN ELSE -a

FAdd(a, b) ==
  IF IsNaN(a) \/ IsNaN(b) THEN NaN
  ELSE IF IsInf(a) THEN (IF IsInf(b) /\ b # a THEN NaN ELSE a)
  ELSE IF IsInf(b) THEN b
  ELSE Rnd(a + b, 1)

FSub(a, b) == FAdd(a, FNeg(b))

FMul(a, b) ==
  IF IsNaN(a) \/ IsNaN(b) THEN NaN
  ELSE IF IsInf(a) \/ IsInf(b)
       THEN (IF a = 0 \/ b = 0 THEN NaN ELSE Signed(Sgn(a) * Sgn(b), PInf))
  ELSE IF b # 0 /\ Abs(a) > (2 * MaxFinite) \div Abs(b)
       THEN Signed(Sgn(a) * Sgn(b), PInf)
  ELSE Rnd(a * b, 1)

\* numpy division: x/0 is an infinity, 0/0 and inf/inf are NaN, no exception
FDiv(a, b) ==
  IF IsNaN(a) \/ IsNaN(b) THEN NaN
  ELSE IF IsInf(a) THEN (IF IsInf(b) THEN NaN
                         ELSE Signed(Sgn(a) * (IF b < 0 THEN -1 ELSE 1), PInf))
  ELSE IF IsInf(b) THEN 0
  ELSE IF b = 0 THEN (IF a = 0 THEN NaN ELSE Signed(Sgn(a), PInf))
  ELSE Rnd(a, b)

RECURSIVE Isqrt(_)
\* floor of the square root of x >= 0
Isqrt(x) ==
  IF x < 2 THEN x
  ELSE LET s == 2 * Isqrt(x \div 4)
       IN IF (s + 1) * (s + 1) <= x THEN s + 1 ELSE s

\* the correctly rounded square root
FSqrt(x) ==
  IF IsNaN(x) \/ x < 0 THEN NaN
  ELSE IF x = PInf THEN PInf
  ELSE LET s == Isqrt(x)
       IN IF s * s = x THEN Rnd(s, 1)
          ELSE IF s < 2^MantBits THEN (IF x > s * s + s THEN s + 1 ELSE s)
          ELSE Rnd(2 * s + 1, 2)

\* r**3 with one rounding
FPow3(r) ==
  IF IsNaN(r) THEN NaN
  ELSE IF IsInf(r) THEN r
  ELSE IF r # 0 /\ r * r > (2 * MaxFinite) \div Abs(r) THEN Signed(Sgn(r), PInf)
  ELSE Rnd(r * r * r, 1)

\* ------------------------------------------------------------ arrays
Bodies == 0 .. 2

\* ndarray.flatten() of a 3x2 array (row-major)
Flatten(a) == [k \in 1 .. 6 |-> a[(k - 1) \div 2][((k - 1) % 2) + 1]]

\* variant: column-major reshape
Reshape32ColumnMajor(s) == [i \in Bodies |-> <<s[i + 1], s[i + 4]>>]

\* ndarray.reshape((3, 2)) of six numbers (row-major)
Reshape32(s) == [i \in Bodies |-> <<s[2 * i + 1], s[2 * i + 2]>>]

\* np.hstack((positions.flatten(), velocities.flatten()))
Pack(pos, vel) == Flatten(pos) \o Flatten(vel)

\* state[:6].reshape((3, 2))
PositionsOf(s) == Reshape32(SubSeq(s, 1, 6))

\* state[6:].reshape((3, 2))
VelocitiesOf(s) == Reshape32(SubSeq(s, 7, 12))

\* ------------------------------------------------------ physics core
G == 3

\* np.linalg.norm of a 2-vector: sqrt(d . d)
Norm(d) == FSqrt(FAdd(FMul(d[1], d[1]), FMul(d[2], d[2])))

\* variant: the zero-distance guard left out
gravitational_force_unguarded(m1, m2, r1, r2) ==
  <<FDiv(FMul(FMul(FMul(G, m1), m2), FSub(r2[1], r1[1])),
         FPow3(Norm(<<FSub(r2[1], r1[1]), FSub(r2[2], r1[2])>>))),
    FDiv(FMul(FMul(FMul(G, m1), m2), FSub(r2[2], r1[2])),
         FPow3(Norm(<<FSub(r2[1], r1[1]), FSub(r2[2], r1[2])>>)))>>

\* variant: m1 written where m2 belongs
GMM_m1_twice(m1, m2) == FMul(FMul(G, m1), m1)

\* G * m1 * m2, left to right
GMM(m1, m2) == FMul(FMul(G, m1), m2)

gravitational_force(m1, m2, r1, r2) ==
  LET d == <<FSub(r2[1], r1[1]), FSub(r2[2], r1[2])>>
      r == Norm(d)
      gmm == GMM(m1, m2)
      r3 == FPow3(r)
  IN IF r = 0 THEN <<0, 0>>
     ELSE <<FDiv(FMul(gmm, d[1]), r3), FDiv(FMul(gmm, d[2]), r3)>>

\* variant: no guard, every pair evaluated
PairAlwaysEvaluated(i, j) == TRUE

\* the loop body's guard: the pair (i, j) is evaluated
PairEvaluated(i, j) == i # j

\* forces[i] += f, and one more gravitational_force call counted
Accumulate(acc, i, f) ==
  [forces |-> [acc.forces EXCEPT ![i] = <<FAdd(@[1], f[1]), FAdd(@[2], f[2])>>],
   calls |-> acc.calls + 1]

RECURSIVE ForceLoop(_, _, _, _)
\* for i in range(3): for j in range(3): the pairs from number k on (k = 3*i + j);
\* acc holds the forces array and the number of gravitational_force calls so far
ForceLoop(pos, m, k, acc) ==
  IF k > 8 THEN acc
  ELSE IF PairEvaluated(k \div 3, k % 3)
       THEN ForceLoop(pos, m, k + 1,
              Accumulate(acc, k \div 3,
                gravitational_force(m[(k \div 3) + 1], m[(k % 3) + 1],
                                    pos[k \div 3], pos[k % 3])))
       ELSE ForceLoop(pos, m, k + 1, acc)

\* forces and call count of one derivatives call
Forces(s, m) ==
  ForceLoop(PositionsOf(s), m, 0,
            [forces |-> [i \in Bodies |-> <<0, 0>>], calls |-> 0])

\* forces / masses[:, np.newaxis]
Accelerations(forces, m) ==
  [i \in Bodies |-> <<FDiv(forces[i][1], m[i + 1]), FDiv(forces[i][2], m[i + 1])>>]

derivatives(s, m) ==
  Flatten(VelocitiesOf(s)) \o Flatten(Accelerations(Forces(s, m).forces, m))

\* elementwise helpers on 12-vectors
VScale(v, c) == [k \in 1 .. 12 |-> FMul(v[k], c)]
VHalf(v) == [k \in 1 .. 12 |-> FDiv(v[k], 2)]
VAdd(u, v) == [k \in 1 .. 12 |-> FAdd(u[k], v[k])]

VDiv6(v) == [k \in 1 .. 12 |-> FDiv(v[k], 6)]

\* the stages of runge_kutta_step, each handing its k on to the next
RKCombine(s, k1, k2, k3, k4) ==
  VAdd(s, VDiv6(VAdd(VAdd(VAdd(k1, VScale(k2, 2)), VScale(k3, 2)), k4)))
RKStage4(s, m, h, k1, k2, k3) ==
  RKCombine(s, k1, k2, k3, VScale(derivatives(VAdd(s, k3), m), h))
RKStage3(s, m, h, k1, k2) ==
  RKStage4(s, m, h, k1, k2, VScale(derivatives(VAdd(s, VHalf(k2)), m), h))
RKStage2(s, m, h, k1) ==
  RKStage3(s, m, h, k1, VScale(derivatives(VAdd(s, VHalf(k1)), m), h))

\* the value runge_kutta_step returns
RK4(s, m, h) == RKStage2(s, m, h, VScale(derivatives(s, m), h))

\* variant: the step written into the input array (state += ...)
runge_kutta_step_in_place(hp, s, m, h) ==
  [heap |-> [hp EXCEPT ![s] = RK4(hp[s], hp[m], h)], ref |-> s]

\* the heap after runge_kutta_step and the index of the array it returns:
\* `state + (k1 + 2*k2 + 2*k3 + k4) / 6` allocates a new array
runge_kutta_step(hp, s, m, h) ==
  [heap |-> Append(hp, RK4(hp[s], hp[m], h)), ref |-> Len(hp) + 1]

\* variant: positions sliced from the input state
PositionsSourceStale(old_state, new_state) == old_state

\* the array whose first six numbers update_simulation returns as `positions`
PositionsSource(old_state, new_state) == new_state

\* new_state and the view positions = new_state[:6].reshape((3, 2)), returned
UpdateResult(s, r) ==
  [heap |-> r.heap, new_state |-> r.ref, positions |-> PositionsSource(s, r.ref)]

update_simulation(hp, s, m, h) == UpdateResult(s, runge_kutta_step(hp, s, m, h))

\* ------------------------------------------------- trajectory deques
max_orbit_length == 3

\* the maxlen each deque of earth_trajectories is constructed with
DequeMaxlen == max_orbit_length

\* variant: deques built without maxlen
DequeAppendUnbounded(q, x) == Append(q, x)

\* deque.append on a deque built with maxlen: a full deque drops its left end
DequeAppend(q, x) ==
  LET q2 == Append(q, x)
  IN IF Len(q2) > DequeMaxlen THEN Tail(q2) ELSE q2

\* positions[i]: a view of row i of the array `base`
RowView(base, i) == [base |-> base, row |-> i]

\* the two numbers a view shows
Deref(hp, v) == PositionsOf(hp[v.base])[v.row]

\* the numbers of a whole deque, oldest first
Values(hp, q) == [k \in 1 .. Len(q) |-> Deref(hp, q[k])]

\* ---------------------------------------------------------- renderer
WIDTH == 800
HEIGHT == 800
SCALE == 2

\* int() of a float raises on NaN and the infinities; on a model number, which is
\* a whole number of quanta, it changes nothing
to_screen_coords(position) ==
  IF IsFinite(position[1]) /\ IsFinite(position[2])
  THEN [ok |-> TRUE,
        x |-> WIDTH \div 2 + FDiv(position[1], SCALE),
        y |-> HEIGHT \div 2 - FDiv(position[2], SCALE)]
  ELSE [ok |-> FALSE, x |-> 0, y |-> 0]

\* variant: popleft already at capacity
PopNeededAtCapacity(q) == Len(q) >= max_orbit_length

\* if len(earth_trajectories[i]) > max_orbit_length
PopNeeded(q) == Len(q) > max_orbit_length

RECURSIVE DrawLoop(_, _, _, _)
\* for i in range(3), from body i on; ok is FALSE when to_screen_coords raised
DrawLoop(hp, p, trajs, i) ==
  IF i > 2 THEN [trajs |-> trajs, ok |-> TRUE]
  ELSE LET c == to_screen_coords(Deref(hp, RowView(p, i)))
           orbit_ok == Len(trajs[i]) > 2 =>
                         \A k \in 1 .. Len(trajs[i]) :
                            to_screen_coords(Deref(hp, trajs[i][k])).ok
           popped == IF PopNeeded(trajs[i])
                     THEN [trajs EXCEPT ![i] = Tail(@)]
                     ELSE trajs
       IN IF ~c.ok \/ ~orbit_ok
          THEN [trajs |-> trajs, ok |-> FALSE]
          ELSE DrawLoop(hp, p, popped, i + 1)

draw_simulation(hp, p, trajs) == DrawLoop(hp, p, trajs, 0)

\* ------------------------------------------------------------- state
VARIABLES
  heap,                \* the numpy arrays, by index
  masses,              \* index of the masses array
  state,               \* index of the current state vector
  dt,                  \* the time step
  positions,           \* index of the array `positions` views (0: not yet bound)
  earth_trajectories,  \* per body, a deque of views
  running,             \* the loop flag
  pc,                  \* where main is
  iter,                \* loop iterations begun
  steps,               \* update_simulation calls made
  frames,              \* draw_simulation calls returned
  appended,            \* per body, every position value appended, in order
  init_positions,      \* the positions array of initialize_simulation
  init_velocities      \* the velocities array of initialize_simulation

vars == <<heap, masses, state, dt, positions, earth_trajectories, running, pc,
          iter, steps, frames, appended, init_positions, init_velocities>>

\* the literals of initialize_simulation, in model units
LiteralMasses == <<16, 16, 16>>
LiteralPositions == [i \in Bodies |-> <<<<8, 0>>, <<-8, 0>>, <<0, 0>>>>[i + 1]]
LiteralVelocities == [i \in Bodies |-> <<<<0, 2>>, <<0, -2>>, <<0, 1>>>>[i + 1]]
LiteralDt == 1

\* main up to the loop, from the arrays initialize_simulation builds
Start(m, p, v, h) ==
  /\ heap = <<m, Pack(p, v)>>
  /\ masses = 1
  /\ state = 2
  /\ dt = h
  /\ positions = 0
  /\ earth_trajectories = [i \in Bodies |-> <<>>]
  /\ running = TRUE
  /\ pc = "loop"
  /\ iter = 0
  /\ steps = 0
  /\ frames = 0
  /\ appended = [i \in Bodies |-> <<>>]
  /\ init_positions = p
  /\ init_velocities = v

Init == Start(LiteralMasses, LiteralPositions, LiteralVelocities, LiteralDt)

\* inputs for the functions taken as functions of their arguments
AsBodies(t) == [i \in Bodies |-> t[i + 1]]
MassChoices == {LiteralMasses, <<7, 5, 16>>}
DtChoices == {LiteralDt, 2}
BadMassChoices == {<<0, 16, 16>>, <<16, -1, 16>>}
BadDtChoices == {0, -1, PInf}
PositionChoices ==
  {LiteralPositions,
   AsBodies(<<<<8, 0>>, <<8, 0>>, <<0, 0>>>>),
   AsBodies(<<<<3, 0>>, <<0, 4>>, <<-5, -2>>>>)}
VelocityChoices ==
  {LiteralVelocities,
   AsBodies(<<<<0, 0>>, <<0, 0>>, <<0, 0>>>>),
   AsBodies(<<<<MaxFinite, 0>>, <<0, 1>>, <<-1, 0>>>>)}

\* every combination of the well-formed inputs, and the literals with one
\* parameter replaced by a malformed one
InitAny ==
  \/ \E m \in MassChoices, p \in PositionChoices, v \in VelocityChoices,
        h \in DtChoices : Start(m, p, v, h)
  \/ \E m \in BadMassChoices :
        Start(m, LiteralPositions, LiteralVelocities, LiteralDt)
  \/ \E h \in BadDtChoices :
        Start(LiteralMasses, LiteralPositions, LiteralVelocities, h)

\* ----------------------------------------------------------- actions
\* while running: ... / pygame.quit()
LoopTest ==
  /\ pc = "loop"
  /\ IF running
     THEN iter < MaxTicks /\ pc' = "events" /\ iter' = iter + 1
     ELSE pc' = "done" /\ iter' = iter
  /\ UNCHANGED <<heap, masses, state, dt, positions, earth_trajectories, running,
                 steps, frames, appended, init_positions, init_velocities>>

\* for event in pygame.event.get(): a QUIT event clears running
Events ==
  /\ pc = "events"
  /\ \E quit \in BOOLEAN : running' = (running /\ ~quit)
  /\ pc' = "update"
  /\ UNCHANGED <<heap, masses, state, dt, positions, earth_trajectories,
                 iter, steps, frames, appended, init_positions, init_velocities>>

\* state, positions = update_simulation(state, masses, dt)
Update ==
  /\ pc = "update"
  /\ \E r \in {update_simulation(heap, state, masses, dt)} :
        /\ heap' = r.heap
        /\ state' = r.new_state
        /\ positions' = r.positions
  /\ steps' = steps + 1
  /\ pc' = "append"
  /\ UNCHANGED <<masses, dt, earth_trajectories, running, iter, frames, appended,
                 init_positions, init_velocities>>

\* for i in range(3): earth_trajectories[i].append(positions[i])
AppendPositions ==
  /\ pc = "append"
  /\ earth_trajectories' =
       [i \in Bodies |-> DequeAppend(earth_trajectories[i], RowView(positions, i))]
  /\ appended' =
       [i \in Bodies |-> Append(appended[i], Deref(heap, RowView(positions, i)))]
  /\ pc' = "draw"
  /\ UNCHANGED <<heap, masses, state, dt, positions, running, iter, steps, frames,
                 init_positions, init_velocities>>

\* draw_simulation(...): an exception out of to_screen_coords ends the program
Draw ==
  /\ pc = "draw"
  /\ \E r \in {draw_simulation(heap, positions, earth_trajectories)} :
        /\ earth_trajectories' = r.trajs
        /\ pc' = IF r.ok THEN "clock" ELSE "crashed"
        /\ frames' = IF r.ok THEN frames + 1 ELSE frames
  /\ UNCHANGED <<heap, masses, state, dt, positions, running, iter, steps, appended,
                 init_positions, init_velocities>>

\* clock.tick(144)
ClockTick ==
  /\ pc = "clock"
  /\ pc' = "loop"
  /\ UNCHANGED <<heap, masses, state, dt, positions, earth_trajectories, running,
                 iter, steps, frames, appended, init_positions, init_velocities>>

Next == LoopTest \/ Events \/ Update \/ AppendPositions \/ Draw \/ ClockTick

Spec == Init /\ [][Next]_vars

SpecAny == InitAny /\ [][Next]_vars

\* ------------------------------------------------------------ claims
LastN(q, n) == SubSeq(q, Len(q) - n + 1, Len(q))
Min(a, b) == IF a < b THEN a ELSE b
CurState == heap[state]
CurMasses == heap[masses]
CurPos == PositionsOf(CurState)
AllFinite(q) == \A k \in 1 .. Len(q) : IsFinite(q[k])
FinitePair(r) == IsFinite(r[1]) /\ IsFinite(r[2])
NegVec(f) == <<FNeg(f[1]), FNeg(f[2])>>
Force(i, j) ==
  gravitational_force(CurMasses[i + 1], CurMasses[j + 1], CurPos[i], CurPos[j])

\* C1: every deque holds at most max_orbit_length entries at every moment; once
\* more than max_orbit_length positions were appended for a body its deque holds
\* exactly max_orbit_length, and the stored values are always the last appended
\* ones in append order.
C1_TrajectoryBound ==
  \A i \in Bodies :
    /\ Len(earth_trajectories[i]) <= max_orbit_length
    /\ Len(appended[i]) > max_orbit_length =>
         Len(earth_trajectories[i]) = max_orbit_length
    /\ Values(heap, earth_trajectories[i]) =
         LastN(appended[i], Min(Len(appended[i]), max_orbit_length))

C1_Witness ==
  /\ pc = "clock"
  /\ \E i \in Bodies : Len(appended[i]) >= max_orbit_length + 2

\* C4: gravitational_force of two equal finite positions is (0, 0) whatever the
\* masses, and two coincident bodies add nothing to each other's net force: each
\* one's net force is the third body's force alone.
TestMasses == {CurMasses[k] : k \in 1 .. 3} \cup {0, -1, PInf, NaN}
C4_DegenerateDistance ==
  /\ \A i \in Bodies : \A m1, m2 \in TestMasses :
       FinitePair(CurPos[i]) =>
         gravitational_force(m1, m2, CurPos[i], CurPos[i]) = <<0, 0>>
  /\ \A i, j, k \in Bodies :
       (i # j /\ k # i /\ k # j /\ CurPos[i] = CurPos[j] /\ FinitePair(CurPos[i])) =>
         /\ Force(i, j) = <<0, 0>>
         /\ Forces(CurState, CurMasses).forces[i] = Force(i, k)

C4_Witness ==
  /\ steps > 0
  /\ CurPos[0] = CurPos[1]
  /\ FinitePair(CurPos[0])
  /\ Force(0, 2) # <<0, 0>>

\* C5 as stated: for non-coincident bodies the force on i by j is the negation of
\* the force on j by i, and the three net forces of derivatives sum to (0, 0).
NetForce(i) == Forces(CurState, CurMasses).forces[i]
NetForceSum ==
  <<FAdd(FAdd(NetForce(0)[1], NetForce(1)[1]), NetForce(2)[1]),
    FAdd(FAdd(NetForce(0)[2], NetForce(1)[2]), NetForce(2)[2])>>
C5_Original ==
  (AllFinite(CurState) /\ AllFinite(CurMasses)) =>
    /\ \A i, j \in Bodies :
         (i # j /\ CurPos[i] # CurPos[j]) => Force(i, j) = NegVec(Force(j, i))
    /\ NetForceSum = <<0, 0>>

\* G*a*b has the same value with the masses in either order
ProductCommutes(a, b) == FMul(FMul(G, a), b) = FMul(FMul(G, b), a)

\* C5 amended: for finite non-coincident bodies whose product G*m_i*m_j rounds the
\* same in both argument orders (equal masses in particular) the force on i by j
\* is exactly the negation of the force on j by i.
C5_ForceAntisymmetry ==
  \A i, j \in Bodies :
    ( /\ i # j
      /\ AllFinite(CurState) /\ AllFinite(CurMasses)
      /\ CurPos[i] # CurPos[j]
      /\ ProductCommutes(CurMasses[i + 1], CurMasses[j + 1]) )
    => Force(i, j) = NegVec(Force(j, i))

C5_Witness ==
  /\ steps > 0
  /\ AllFinite(CurState)
  /\ CurMasses[1] # CurMasses[3]
  /\ ProductCommutes(CurMasses[1], CurMasses[3])
  /\ CurPos[0] # CurPos[2]
  /\ Force(0, 2) # <<0, 0>>
  /\ Force(0, 2) = NegVec(Force(2, 0))

\* C6: the state vector initialize_simulation packs unpacks to the very positions
\* and velocities it was packed from, body i at index i, and packing what the
\* slices of any state unpack gives that state back.
C6_LayoutRoundTrip ==
  /\ steps = 0 =>
       /\ PositionsOf(CurState) = init_positions
       /\ VelocitiesOf(CurState) = init_velocities
  /\ PositionsOf(Pack(init_positions, init_velocities)) = init_positions
  /\ VelocitiesOf(Pack(init_positions, init_velocities)) = init_velocities
  /\ Pack(PositionsOf(CurState), VelocitiesOf(CurState)) = CurState
  /\ \A i \in Bodies :
       /\ PositionsOf(CurState)[i] = <<CurState[2 * i + 1], CurState[2 * i + 2]>>
       /\ VelocitiesOf(CurState)[i] = <<CurState[2 * i + 7], CurState[2 * i + 8]>>

C6_Witness ==
  /\ steps = 0
  /\ pc = "update"
  /\ Cardinality({CurState[k] : k \in 1 .. 12}) >= 6
  /\ PositionsOf(CurState) = init_positions
  /\ init_positions # init_velocities

\* C7: a draw_simulation call changes no array, not the state vector, not the
\* masses and no deque: its popleft branch is never taken.
C7_RendererReadsOnly ==
  [][pc = "draw" =>
       /\ heap' = heap
       /\ state' = state
       /\ masses' = masses
       /\ earth_trajectories' = earth_trajectories]_vars

C7_Witness ==
  /\ pc = "clock"
  /\ frames > max_orbit_length
  /\ \A i \in Bodies : Len(earth_trajectories[i]) = max_orbit_length

\* C8: in each iteration the stepper is called once, then each body gets one
\* append, then the renderer is called; between iterations all three counts equal
\* the number of iterations, and outside the append step the newest entry of body
\* i is body i's position in the current state vector.
CountsAre(s, a, f) ==
  /\ steps = s
  /\ \A i \in Bodies : Len(appended[i]) = a
  /\ frames = f
C8_TickOrdering ==
  /\ pc \in {"loop", "done", "clock"} => CountsAre(iter, iter, iter)
  /\ pc \in {"events", "update"} => CountsAre(iter - 1, iter - 1, iter - 1)
  /\ pc = "append" => CountsAre(iter, iter - 1, iter - 1)
  /\ pc \in {"draw", "crashed"} => CountsAre(iter, iter, iter - 1)
  /\ \A i \in Bodies :
       (pc # "append" /\ Len(appended[i]) > 0) =>
         /\ Deref(heap, earth_trajectories[i][Len(earth_trajectories[i])]) = CurPos[i]
         /\ appended[i][Len(appended[i])] = CurPos[i]

C8_Witness ==
  /\ pc = "draw"
  /\ iter >= 2
  /\ CurPos # PositionsOf(heap[state - 1])

\* C9: derivatives returns 12 numbers; the first six are the input's velocity
\* block; for body i the next pair is the sum of gravitational_force over the two
\* other bodies divided by masses[i]; one call makes exactly 6 force evaluations.
Others(i) == Bodies \ {i}
Lo(S) == CHOOSE x \in S : \A y \in S : x <= y
Hi(S) == CHOOSE x \in S : \A y \in S : x >= y
C9_DerivativeContract ==
  LET dydt == derivatives(CurState, CurMasses)
  IN /\ Len(dydt) = 12
     /\ SubSeq(dydt, 1, 6) = SubSeq(CurState, 7, 12)
     /\ \A i \in Bodies :
          LET f1 == Force(i, Lo(Others(i)))
              f2 == Force(i, Hi(Others(i)))
          IN \A c \in 1 .. 2 :
               dydt[6 + 2 * i + c] = FDiv(FAdd(f1[c], f2[c]), CurMasses[i + 1])
     /\ Forces(CurState, CurMasses).calls = 6

C9_Witness ==
  /\ steps > 0
  /\ AllFinite(CurState)
  /\ LET dydt == derivatives(CurState, CurMasses)
     IN \A i \in Bodies : \E c \in 1 .. 2 :
          dydt[6 + 2 * i + c] # 0 /\ IsFinite(dydt[6 + 2 * i + c])

\* C10: no step writes into an existing array: every array keeps its contents,
\* each update binds `state` to a newly allocated array, the masses keep their
\* initial values, and every stored view still shows the value it had when it
\* was appended.
C10_StepReplaces ==
  [][ /\ Len(heap') >= Len(heap)
      /\ \A r \in 1 .. Len(heap) : heap'[r] = heap[r]
      /\ masses' = masses
      /\ heap'[masses'] = LiteralMasses
      /\ pc = "update" => (state' > Len(heap) /\ state' # state)
      /\ \A i \in Bodies :
           Values(heap', earth_trajectories'[i]) =
             LastN(appended'[i], Len(earth_trajectories'[i])) ]_vars

C10_Witness ==
  /\ pc = "append"
  /\ steps >= 2
  /\ Len(earth_trajectories[0]) >= 1
  /\ earth_trajectories[0][1].base # state
  /\ Deref(heap, earth_trajectories[0][1]) # CurPos[0]

\* C2 as stated: parameters with a mass <= 0, or a time step <= 0 or not finite,
\* start no run: no step is made and nothing is appended.
ParamsInvalid ==
  \/ \E k \in 1 .. 3 : CurMasses[k] <= 0
  \/ dt <= 0
  \/ ~IsFinite(dt)
C3_NumericalFailureSignalled ==
  (~ParamsInvalid /\ AllFinite(Flatten(init_positions)) /\ AllFinite(Flatten(init_velocities))) =>
    /\ AllFinite(CurState)
    /\ \A i \in Bodies : \A k \in 1 .. Len(appended[i]) : FinitePair(appended[i][k])
====
